---- MODULE Spec2Model ----
(***************************************************************************)
(* updown: a small HTTP file-sharing server (Go).                          *)
(*                                                                         *)
(* Strings that the program takes apart (paths, query values, file names)  *)
(* are sequences of one-character strings, so that path.Join, path.Clean,  *)
(* path.Base and url.QueryEscape are computed, not assumed.                *)
(***************************************************************************)
EXTENDS Integers, Sequences, FiniteSets, TLC

\* ---------------------------------------------------------------- bounds
\* longest uploaded content, in chunks written by io.Copy
MaxContent == 2
\* most parts a multipart stream delivers before it ends
MaxParts == 2

Chars == {"/", ".", "d", "f"}
Bytes == {"x", "y"}
\* the byte a file system reads back from a hole left by a write past the end
ZeroByte == "0"

SeqsUpTo(S, n) == UNION {[1..k -> S] : k \in 0..n}
Contents == SeqsUpTo(Bytes, MaxContent)

\* ------------------------------------------------- package path (Go stdlib)
Slash == "/"
Dot == <<".">>
DotDot == <<".", ".">>

HasSlash(s) == \E i \in 1..Len(s) : s[i] = Slash
FirstSlash(s) == CHOOSE i \in 1..Len(s) : s[i] = Slash /\ \A j \in 1..(i-1) : s[j] # Slash
LastSlash(s) == CHOOSE i \in 1..Len(s) : s[i] = Slash /\ \A j \in (i+1)..Len(s) : s[j] # Slash

\* the "/"-separated components of s, empty ones included
RECURSIVE Segments(_)
Segments(s) ==
    IF ~HasSlash(s) THEN <<s>>
    ELSE LET i == FirstSlash(s)
         IN <<SubSeq(s, 1, i-1)>> \o Segments(SubSeq(s, i+1, Len(s)))

\* components joined by "/"
RECURSIVE JoinSegments(_)
JoinSegments(segs) ==
    IF segs = <<>> THEN <<>>
    ELSE IF Len(segs) = 1 THEN segs[1]
    ELSE segs[1] \o <<Slash>> \o JoinSegments(Tail(segs))

\* path.Clean's pass over the components: drop "" and ".", let ".." remove
\* the component before it, keep a leading ".." only in a relative path
RECURSIVE CleanStack(_, _, _)
CleanStack(segs, out, rooted) ==
    IF segs = <<>> THEN out
    ELSE LET e == Head(segs)
             rest == Tail(segs)
         IN IF e = <<>> \/ e = Dot THEN CleanStack(rest, out, rooted)
            ELSE IF e = DotDot
                 THEN IF out # <<>> /\ out[Len(out)] # DotDot
                      THEN CleanStack(rest, SubSeq(out, 1, Len(out)-1), rooted)
                      ELSE IF rooted THEN CleanStack(rest, out, rooted)
                      ELSE CleanStack(rest, Append(out, e), rooted)
                 ELSE CleanStack(rest, Append(out, e), rooted)

IsAbs(s) == s # <<>> /\ s[1] = Slash

Clean(s) ==
    IF s = <<>> THEN Dot
    ELSE LET out == CleanStack(Segments(s), <<>>, IsAbs(s))
         IN IF IsAbs(s) THEN <<Slash>> \o JoinSegments(out)
            ELSE IF out = <<>> THEN Dot
            ELSE JoinSegments(out)

\* path.Join(a, b): empty elements are ignored, the rest joined and cleaned
Join(a, b) ==
    IF a = <<>> /\ b = <<>> THEN <<>>
    ELSE IF a = <<>> THEN Clean(b)
    ELSE IF b = <<>> THEN Clean(a)
    ELSE Clean(a \o <<Slash>> \o b)

RECURSIVE StripTrailingSlashes(_)
StripTrailingSlashes(s) ==
    IF s # <<>> /\ s[Len(s)] = Slash
    THEN StripTrailingSlashes(SubSeq(s, 1, Len(s)-1))
    ELSE s

\* path.Base
Base(s) ==
    IF s = <<>> THEN Dot
    ELSE LET t == StripTrailingSlashes(s)
             u == IF HasSlash(t) THEN SubSeq(t, LastSlash(t)+1, Len(t)) ELSE t
         IN IF u = <<>> THEN <<Slash>> ELSE u

\* filepath.Abs on a Unix build: an absolute path is cleaned, a relative one is
\* joined to the working directory
Cwd == <<"/", "d">>
Abs(s) == IF IsAbs(s) THEN Clean(s) ELSE Join(Cwd, s)

\* ------------------------------------------------------------ file system
\* a file system maps the absolute clean path of every node to the node
DirNode == [dir |-> TRUE, data |-> <<>>]
FileNode(c) == [dir |-> FALSE, data |-> c]
ParentOf(p) == Clean(p \o <<Slash, ".", ".">>)

InitFS ==
    (<<"/">> :> DirNode) @@
    (<<"/", "f">> :> FileNode(<<"y">>)) @@
    (<<"/", "d">> :> DirNode) @@
    (<<"/", "d", "/", "f">> :> FileNode(<<"x">>)) @@
    (<<"/", "d", "/", "d">> :> DirNode) @@
    (<<"/", "d", "/", "d", "/", "d">> :> DirNode) @@
    (<<"/", "d", "/", "d", "/", "f">> :> FileNode(<<"x", "y">>))

IsDirAt(f, p) == Abs(p) \in DOMAIN f /\ f[Abs(p)].dir
IsFileAt(f, p) == Abs(p) \in DOMAIN f /\ ~f[Abs(p)].dir

\* byte order of the characters, for the sort os.ReadDir applies
CharRank(c) == CASE c = "." -> 1 [] c = "/" -> 2 [] c = "d" -> 3 [] OTHER -> 4
RECURSIVE NameLess(_, _)
NameLess(a, b) ==
    IF a = <<>> THEN b # <<>>
    ELSE IF b = <<>> THEN FALSE
    ELSE IF a[1] # b[1] THEN CharRank(a[1]) < CharRank(b[1])
    ELSE NameLess(Tail(a), Tail(b))

RECURSIVE SortNames(_)
SortNames(S) ==
    IF S = {} THEN <<>>
    ELSE LET m == CHOOSE a \in S : \A b \in S \ {a} : NameLess(a, b)
         IN <<m>> \o SortNames(S \ {m})

\* os.ReadDir: the directory's entries sorted by file name; entries are
\* [name, isDir]
ReadDirOk(f, p) == IsDirAt(f, p)
ReadDir(f, p) ==
    LET full == Abs(p)
        kids == {q \in DOMAIN f : q # <<Slash>> /\ ParentOf(q) = full}
        names == SortNames({Base(q) : q \in kids})
    IN [i \in 1..Len(names) |->
            [name |-> names[i], isDir |-> f[Join(full, names[i])].dir]]

\* os.Open succeeds on any existing node, directories included
OpenOk(f, p) == Abs(p) \in DOMAIN f

\* os.Create: O_CREATE|O_TRUNC; fails on a directory or under a missing parent
CreateOk(f, p) ==
    /\ p # <<>>
    /\ ~IsDirAt(f, p)
    /\ IsDirAt(f, ParentOf(Abs(p)))
\* a create that opens without O_TRUNC
Create_NoTruncate(f, p) ==
    LET q == Abs(p)
    IN [n \in DOMAIN f \cup {q} |-> IF n \in DOMAIN f THEN f[n] ELSE FileNode(<<>>)]

Create(f, p) ==
    LET q == Abs(p)
    IN [n \in DOMAIN f \cup {q} |-> IF n = q THEN FileNode(<<>>) ELSE f[n]]

\* a write of one chunk at the handle's own offset; a write past the end of
\* the file leaves a hole that reads as zero bytes
RECURSIVE Zeros(_)
Zeros(n) == IF n <= 0 THEN <<>> ELSE <<ZeroByte>> \o Zeros(n - 1)
WriteAt(f, q, off, b) ==
    LET old == f[q].data
        new == IF off >= Len(old)
               THEN old \o Zeros(off - Len(old)) \o <<b>>
               ELSE [i \in 1..Len(old) |-> IF i = off + 1 THEN b ELSE old[i]]
    IN [f EXCEPT ![q] = FileNode(new)]

\* ------------------------------------------------------ net/http responses
\* the response writer: the status line is fixed by the first WriteHeader or
\* Write; headers set afterwards never reach the client
NewResponse ==
    [wrote |-> FALSE, status |-> 0, ctype |-> "", cdisp |-> <<>>,
     location |-> "", body |-> <<>>, page |-> <<>>]

WriteHeader(w, code) ==
    IF w.wrote THEN w ELSE [w EXCEPT !.wrote = TRUE, !.status = code]

Write(w, data) ==
    LET w1 == WriteHeader(w, 200) IN [w1 EXCEPT !.body = @ \o data]

SetContentType(w, v) == IF w.wrote THEN w ELSE [w EXCEPT !.ctype = v]
SetContentDisposition(w, v) == IF w.wrote THEN w ELSE [w EXCEPT !.cdisp = v]
SetLocation(w, v) == IF w.wrote THEN w ELSE [w EXCEPT !.location = v]

\* io.Copy into the response writer: no data, no Write call
CopyToResponse(w, data) == IF data = <<>> THEN w ELSE Write(w, data)

\* fmt.Fprintln(w, msg)
Line(msg) == IF msg = "" THEN <<"\n">> ELSE <<msg, "\n">>

\* http.Error
HttpError(w, msg, code) ==
    Write(WriteHeader(SetContentType(w, "text/plain; charset=utf-8"), code), Line(msg))

\* http.NotFound
NotFound(w) == HttpError(w, "404 page not found", 404)

\* http.Redirect with status 302: the Location header; when no Content-Type
\* was set before, GET and HEAD get the HTML Content-Type and GET the body,
\* a one-line anchor written with Fprintln
Redirect(w, method, url, code) ==
    LET hadCT == w.ctype # ""
        w1 == SetLocation(w, url)
        w2 == IF ~hadCT /\ method \in {"GET", "HEAD"}
              THEN SetContentType(w1, "text/html; charset=utf-8")
              ELSE w1
        w3 == WriteHeader(w2, code)
    IN IF ~hadCT /\ method = "GET"
       THEN Write(w3, <<"<a href=\"", url, "\">Found</a>.\n", "\n">>)
       ELSE w3

\* ---------------------------------------------------- query values and URLs
\* getQueryValueOrDefault: query is the list of values given for the key
GetQueryValueOrDefault(query, fallback) ==
    IF Len(query) = 0 THEN fallback
    ELSE IF query[1] = <<>> THEN fallback
    ELSE query[1]

\* url.QueryEscape on the model's alphabet: "/" is percent-encoded
RECURSIVE QueryEscape(_)
QueryEscape(s) ==
    IF s = <<>> THEN <<>>
    ELSE (IF s[1] = Slash THEN <<"%", "2", "F">> ELSE <<s[1]>>) \o QueryEscape(Tail(s))

RECURSIVE QueryUnescape(_)
QueryUnescape(s) ==
    IF s = <<>> THEN <<>>
    ELSE IF Len(s) >= 3 /\ SubSeq(s, 1, 3) = <<"%", "2", "F">>
         THEN <<Slash>> \o QueryUnescape(SubSeq(s, 4, Len(s)))
         ELSE <<s[1]>> \o QueryUnescape(Tail(s))

\* addQueryToPath with the single key "p": the URL's path and its raw query
AddQueryToPath(urlPath, v) ==
    [Path |-> urlPath, RawQuery |-> <<"p", "=">> \o QueryEscape(v)]

\* the request a client sends when it follows a generated link
FollowLink(u) ==
    [method |-> "GET", path |-> u.Path,
     query |-> <<QueryUnescape(SubSeq(u.RawQuery, 3, Len(u.RawQuery)))>>]

\* ------------------------------------------------------------------ routing
Nil == "nil"
\* the ByMethod pairs main registers, by mux pattern
Routes ==
    [root |-> [Get |-> "handleRootGet", Post |-> Nil],
     upload |-> [Get |-> Nil, Post |-> "handleUploadPost"],
     download |-> [Get |-> "handleDownloadGet", Post |-> Nil]]

\* http.ServeMux: "/upload" and "/download" match exactly, "/" matches the rest
Mux(urlPath) ==
    IF urlPath = "/upload" THEN "upload"
    ELSE IF urlPath = "/download" THEN "download"
    ELSE "root"

NotAllowed == "405"
\* a router that looks at which handlers are set, not at the method
RouteByMethod_AnyMethod(byMethod, method) ==
    IF byMethod.Get # Nil THEN byMethod.Get
    ELSE IF byMethod.Post # Nil THEN byMethod.Post
    ELSE NotAllowed
\* routeByMethod: the handler the returned closure invokes, or NotAllowed
RouteByMethod(byMethod, method) ==
    IF method = "GET" /\ byMethod.Get # Nil THEN byMethod.Get
    ELSE IF method = "POST" /\ byMethod.Post # Nil THEN byMethod.Post
    ELSE NotAllowed

Dispatch(method, urlPath) == RouteByMethod(Routes[Mux(urlPath)], method)

\* ----------------------------------------------------------------- handlers
\* an entry list whose directories link to the download route
FileEntries_DirAsFile(servePathRoot, entries) ==
    <<[URL |-> AddQueryToPath("/", Join(servePathRoot, DotDot)),
       Name |-> <<".", ".", "/">>, Type |-> "<DIR>"]>> \o
    [i \in 1..Len(entries) |->
        [URL |-> AddQueryToPath("/download", Join(servePathRoot, entries[i].name)),
         Name |-> entries[i].name, Type |-> ""]]

\* the entry list handleRootGet builds: the parent entry, then one entry per
\* directory entry in the order ReadDir returned them
FileEntries(servePathRoot, entries) ==
    <<[URL |-> AddQueryToPath("/", Join(servePathRoot, DotDot)),
       Name |-> <<".", ".", "/">>, Type |-> "<DIR>"]>> \o
    [i \in 1..Len(entries) |->
        IF entries[i].isDir
        THEN [URL |-> AddQueryToPath("/", Join(servePathRoot, entries[i].name)),
              Name |-> entries[i].name \o <<Slash>>, Type |-> "<DIR>"]
        ELSE [URL |-> AddQueryToPath("/download", Join(servePathRoot, entries[i].name)),
              Name |-> entries[i].name, Type |-> ""]]

\* the directory handleRootGet reads
ListingPath(sd, query) == Abs(Join(sd, GetQueryValueOrDefault(query, Dot)))

\* handleRootGet. fault is what the environment makes fail: "abs" (Getwd,
\* for a relative path), "readdir", "render" (a write to the client, once the
\* head of the page has gone out)
HandleRootGet(w, sd, f, urlPath, query, fault) ==
    IF urlPath # "/" THEN NotFound(w)
    ELSE LET servePathRoot == GetQueryValueOrDefault(query, Dot)
             fullPath == ListingPath(sd, query)
         IN IF fault = "abs" /\ ~IsAbs(Join(sd, servePathRoot))
            THEN HttpError(w, "", 500)
            ELSE IF fault = "readdir" \/ ~ReadDirOk(f, fullPath)
            THEN HttpError(w, "", 500)
            ELSE IF fault = "render"
            THEN HttpError(Write(w, <<"<html>">>), "", 500)
            ELSE [Write(w, <<"<html>">>) EXCEPT
                    !.page = <<[FullPath |-> fullPath,
                                Files |-> FileEntries(servePathRoot, ReadDir(f, fullPath))]>>]

\* the multipart parts and files a request holds, as resources to close
PartId(i) == <<"part", i>>
FileId == <<"file", 0>>

\* the path handleDownloadGet opens
DownloadPath(sd, query) == Join(sd, GetQueryValueOrDefault(query, Dot))

\* whether handleDownloadGet's os.Open succeeds
DownloadOpens(sd, f, query, fault) ==
    fault # "open" /\ OpenOk(f, DownloadPath(sd, query))

\* a download that announces the whole path it opened
AttachmentName_Full(fsPath) == fsPath

\* the file name handleDownloadGet announces
AttachmentName(fsPath) == Base(fsPath)

\* handleDownloadGet up to io.Copy: the 500 of a failed open, or the two
\* headers of the attachment
DownloadBegin(w, sd, f, query, fault) ==
    IF ~DownloadOpens(sd, f, query, fault) THEN HttpError(w, "", 500)
    ELSE LET fsPath == DownloadPath(sd, query)
             w1 == SetContentType(w, "application/octet-stream")
         IN SetContentDisposition(w1,
                <<"attachment; filename=\"">> \o AttachmentName(fsPath) \o <<"\"">>)

\* io.Copy(w, file) failed: the 500 (which cannot replace a status already sent)
DownloadCopyFailed(w) == HttpError(w, "", 500)

\* io.Copy(w, file) reached the end of the file: the late 204
DownloadCopyDone(w) == WriteHeader(w, 204)

\* handleDownloadGet's deferred call: the opened file is closed on return
DownloadDefers == <<FileId>>

\* multipart.Part.FileName: the base name of the declared file name
PartFileName(raw) == IF raw = <<>> THEN <<>> ELSE Base(raw)

\* a readPart that trusts the declared file name as it is
UploadFileName_Raw(part) == part.filename

\* readPart: the path the part is written to
UploadFileName(part) == Base(PartFileName(part.filename))
OutputPath(od, part) == Join(od, UploadFileName(part))

\* a readPart that takes every part for the upload
Qualifies_Any(part) == TRUE

\* readPart: whether the part is the upload
Qualifies(part) == part.name = "file"

\* a readPart that closes by hand on its success path only
ReadPartDefers_SuccessOnly(i, fileCreated, failed) ==
    IF failed THEN <<>>
    ELSE IF fileCreated THEN <<FileId, PartId(i)>> ELSE <<PartId(i)>>

\* readPart's deferred calls, run last-in first-out when it returns: the file
\* (if one was created) and then the part, on the error paths too
ReadPartDefers(i, fileCreated, failed) ==
    IF fileCreated THEN <<FileId, PartId(i)>> ELSE <<PartId(i)>>

\* the upload loop after readPart returned ok: break, and redirect
AfterReadPartOk(w, method) == Redirect(w, method, "/", 302)

\* ------------------------------------------------------------------ inputs
Methods == {"GET", "POST", "PUT"}
UrlPaths == {"/", "/upload", "/download", "/zzz"}
\* navigation paths a client sends: empty, the root, the parent, a directory,
\* files, a missing name, paths that climb out of the root, an absolute path
NavPaths ==
    {<<>>, Dot, DotDot, <<"d">>, <<"f">>, <<"f", "f">>, <<"d", "/", "f">>,
     <<"d", "/", ".", ".">>, <<"d", "/", "d">>, <<".", ".", "/", "f">>,
     <<".", ".", "/", ".", ".">>, <<"/", "f">>, <<"f", "/", "d">>}
\* the values given for the query key "p": none, or one
Queries == {<<>>} \cup {<<v>> : v \in NavPaths}
\* requests: the query is enumerated where a handler reads it
Requests ==
    {[method |-> "GET", path |-> u, query |-> q] : u \in {"/", "/download"}, q \in Queries}
    \cup {[method |-> m, path |-> u, query |-> <<>>] : m \in Methods, u \in UrlPaths}

ListingFaults == {"none", "abs", "readdir", "render"}
DownloadFaults == {"none", "open"}
\* r.MultipartReader: fine, or one of its errors
MultipartOutcomes == {"ok", "ErrNotMultipart", "ErrMissingBoundary"}

\* declared file names of uploaded parts
UploadNames ==
    {<<>>, <<"f">>, <<"d">>, <<".", ".">>, <<"d", "/", "f", "f">>}
\* file names of the parts of two uploads that aim at one file
SameFileNames == {<<"f">>, <<"d", "/", "f">>}
OtherPart == [name |-> "note", filename |-> <<>>, content |-> <<"x">>]
FileParts(names) == [name : {"file"}, filename : names, content : Contents]
Parts == FileParts(UploadNames) \cup {OtherPart}
SameFileParts == FileParts(SameFileNames)
\* the downloads that fetch the file those uploads write
SameFileQueries == {<<<<"f">>>>, <<<<"d", "/", "f">>>>}
NoPart == [name |-> "", filename |-> <<>>, content |-> <<>>]

\* the -s and -o flags: both the working directory (the default), the same
\* directory under two spellings, and an output directory below the root
Configs ==
    {[serve |-> Dot, output |-> Dot],
     [serve |-> <<"/", "d">>, output |-> Dot],
     [serve |-> Dot, output |-> <<"/", "d", "/", "d">>]}

\* -------------------------------------------------------------------- state
\* the connections of the model: two requests can be in flight at once
Slots == {"a", "b"}

VARIABLES
    serveDir,   \* *serveDir, set by main from the flags
    outputDir,  \* *outputDir
    fs,         \* the file system
    req,        \* per connection: the request being handled and how far it got
    uploaded    \* history: the uploads that succeeded and whose file nobody wrote since

vars == <<serveDir, outputDir, fs, req, uploaded>>

IdleReq ==
    [pc |-> "idle", method |-> "", path |-> "", query |-> <<>>, fault |-> "none",
     cut |-> 0, mp |-> "", handler |-> "", resp |-> NewResponse, log |-> <<>>,
     partsRead |-> 0, part |-> NoPart, fileAt |-> 0, term |-> "", target |-> <<>>,
     off |-> 0, opened |-> <<>>, closed |-> <<>>, createOk |-> FALSE,
     copyOk |-> FALSE, panicked |-> FALSE, fs0 |-> <<>>, names |-> <<>>,
     undisturbed |-> FALSE]

Init ==
    /\ \E c \in Configs : serveDir = c.serve /\ outputDir = c.output
    /\ fs = InitFS
    /\ req = [r \in Slots |-> IdleReq]
    /\ uploaded = {}

\* loggerMiddleware.ServeHTTP, the mux and routeByMethod: the request is
\* logged and the handler chosen
Accept(rq) ==
    [IdleReq EXCEPT !.method = rq.method, !.path = rq.path, !.query = rq.query,
                    !.handler = Dispatch(rq.method, rq.path),
                    !.log = <<<<"request", rq.method, rq.path, rq.query>>>>,
                    !.fs0 = fs]

Finished(rec, w) == [rec EXCEPT !.pc = "done", !.resp = w]

\* history: another request created or wrote the file at q, which disturbs
\* every request that created it before
Disturb(rec, q) ==
    IF rec.createOk /\ Abs(rec.target) = q THEN [rec EXCEPT !.undisturbed = FALSE] ELSE rec

\* routeByMethod's fall-through: 405, nothing else
MethodNotAllowed(r) ==
    /\ req[r].pc = "idle"
    /\ \E rq \in Requests :
        /\ Dispatch(rq.method, rq.path) = NotAllowed
        /\ req' = [req EXCEPT ![r] = Finished(Accept(rq), WriteHeader(NewResponse, 405))]
    /\ UNCHANGED <<serveDir, outputDir, fs, uploaded>>

ServeRootGet(r) ==
    /\ req[r].pc = "idle"
    /\ \E rq \in Requests, fault \in ListingFaults :
        /\ Dispatch(rq.method, rq.path) = "handleRootGet"
        /\ req' = [req EXCEPT ![r] =
                Finished([Accept(rq) EXCEPT !.fault = fault],
                         HandleRootGet(NewResponse, serveDir, fs, rq.path, rq.query, fault))]
    /\ UNCHANGED <<serveDir, outputDir, fs, uploaded>>

\* handleDownloadGet up to io.Copy: os.Open and the headers
DownloadStart(r, queries) ==
    /\ req[r].pc = "idle"
    /\ \E rq \in Requests, fault \in DownloadFaults :
        /\ Dispatch(rq.method, rq.path) = "handleDownloadGet"
        /\ rq.query \in queries
        /\ LET rec == [Accept(rq) EXCEPT !.fault = fault]
               w == DownloadBegin(NewResponse, serveDir, fs, rq.query, fault)
           IN req' = [req EXCEPT ![r] =
                IF ~DownloadOpens(serveDir, fs, rq.query, fault)
                THEN Finished(rec, w)
                ELSE [rec EXCEPT !.pc = "send", !.resp = w, !.off = 0,
                                 !.target = DownloadPath(serveDir, rq.query),
                                 !.opened = <<FileId>>]]
    /\ UNCHANGED <<serveDir, outputDir, fs, uploaded>>

\* io.Copy(w, file), one chunk per step: each read sees the file as it is
\* then, at the handle's own offset; then handleDownloadGet's return
DownloadCopy(r) ==
    /\ req[r].pc = "send"
    /\ LET rec == req[r]
           node == fs[Abs(rec.target)]
           returned == [rec EXCEPT !.closed = @ \o DownloadDefers]
       IN \/ \* the next chunk is read and written to the client
             /\ ~node.dir
             /\ rec.off < Len(node.data)
             /\ req' = [req EXCEPT ![r] =
                    [rec EXCEPT !.off = @ + 1,
                                !.resp = CopyToResponse(@, <<node.data[rec.off + 1]>>)]]
          \/ \* the read fails: always on a directory, else when the
             \* environment fails it
             /\ req' = [req EXCEPT ![r] =
                    Finished([returned EXCEPT
                                !.fault = IF node.dir THEN @ ELSE "copy",
                                !.cut = rec.off],
                             DownloadCopyFailed(rec.resp))]
          \/ \* the read finds the end of the file
             /\ ~node.dir
             /\ rec.off >= Len(node.data)
             /\ req' = [req EXCEPT ![r] = Finished(returned, DownloadCopyDone(rec.resp))]
    /\ UNCHANGED <<serveDir, outputDir, fs, uploaded>>

\* handleUploadPost up to the part loop: r.MultipartReader()
UploadStart(r, outcomes) ==
    /\ req[r].pc = "idle"
    /\ \E rq \in Requests, mp \in outcomes :
        /\ Dispatch(rq.method, rq.path) = "handleUploadPost"
        /\ LET rec == [Accept(rq) EXCEPT !.mp = mp]
           IN req' = [req EXCEPT ![r] =
                IF mp # "ok"
                THEN Finished([rec EXCEPT !.log = @ \o
                                  <<<<"Unable to read multipart form data", mp>>>>],
                              HttpError(NewResponse, "Unable to read multipart form data", 400))
                ELSE [rec EXCEPT !.pc = "parts"]]
    /\ UNCHANGED <<serveDir, outputDir, fs, uploaded>>

\* one turn of the part loop: reader.NextPart() and readPart up to os.Create.
\* The stream delivers a part, ends (io.EOF) or breaks (any other error, with
\* a nil part); ioFail is the environment refusing the create
UploadNextPart(r, parts) ==
    /\ req[r].pc = "parts"
    /\ \E kind \in {"eof", "err", "part"}, part \in parts, ioFail \in BOOLEAN :
        LET rec == req[r]
            i == rec.partsRead + 1
            outputPath == OutputPath(outputDir, part)
            ok == ~ioFail /\ CreateOk(fs, outputPath)
            got == [rec EXCEPT !.partsRead = i, !.part = part,
                               !.names = Append(@, part.name),
                               !.opened = Append(@, PartId(i))]
        IN
        CASE kind = "eof" ->
                \* errors.Is(err, io.EOF)
                /\ req' = [req EXCEPT ![r] =
                        Finished([rec EXCEPT !.term = "eof"], HttpError(rec.resp, "", 400))]
                /\ UNCHANGED <<fs, uploaded>>
          [] kind = "err" ->
                \* the nil part reaches readPart: part.FormName() dereferences it
                \* and the goroutine panics; net/http recovers and drops the
                \* connection without a response
                /\ req' = [req EXCEPT ![r] =
                        [rec EXCEPT !.pc = "done", !.term = "err", !.panicked = TRUE]]
                /\ UNCHANGED <<fs, uploaded>>
          [] OTHER ->
                /\ rec.partsRead < MaxParts
                /\ IF ~Qualifies(part)
                   THEN /\ req' = [req EXCEPT ![r] =
                                [got EXCEPT !.closed = @ \o ReadPartDefers(i, FALSE, FALSE)]]
                        /\ UNCHANGED <<fs, uploaded>>
                   ELSE LET seen == [got EXCEPT
                                !.fileAt = i, !.target = outputPath,
                                !.log = Append(@, <<"Receive upload", PartFileName(part.filename),
                                                    outputPath>>)]
                        IN IF ~ok
                           THEN /\ req' = [req EXCEPT ![r] =
                                    Finished([seen EXCEPT !.closed = @ \o ReadPartDefers(i, FALSE, TRUE)],
                                             HttpError(rec.resp, "", 400))]
                                /\ UNCHANGED <<fs, uploaded>>
                           ELSE /\ req' = [s \in Slots |->
                                    IF s = r
                                    THEN [seen EXCEPT !.pc = "copy", !.createOk = TRUE, !.off = 0,
                                                      !.undisturbed = TRUE,
                                                      !.opened = Append(@, FileId)]
                                    ELSE Disturb(req[s], Abs(outputPath))]
                                /\ fs' = Create(fs, outputPath)
                                /\ uploaded' = {u \in uploaded : u.name # UploadFileName(part)}
    /\ UNCHANGED <<serveDir, outputDir>>

\* io.Copy(file, part), one chunk per step, and readPart's return
UploadCopy(r) ==
    /\ req[r].pc = "copy"
    /\ LET rec == req[r]
           c == rec.part.content
           q == Abs(rec.target)
       IN \/ \* the next chunk is read from the part and written to the file
             /\ rec.off < Len(c)
             /\ fs' = WriteAt(fs, q, rec.off, c[rec.off + 1])
             /\ req' = [s \in Slots |->
                    IF s = r THEN [rec EXCEPT !.off = @ + 1] ELSE Disturb(req[s], q)]
             /\ uploaded' = {u \in uploaded : u.name # UploadFileName(rec.part)}
          \/ \* the copy fails: readPart returns the error, the handler 400
             /\ req' = [req EXCEPT ![r] =
                    Finished([rec EXCEPT !.closed = @ \o ReadPartDefers(rec.partsRead, TRUE, TRUE)],
                             HttpError(rec.resp, "", 400))]
             /\ UNCHANGED <<fs, uploaded>>
          \/ \* the part is exhausted: readPart returns ok, the loop breaks
             /\ rec.off = Len(c)
             /\ req' = [req EXCEPT ![r] =
                    Finished([rec EXCEPT !.copyOk = TRUE,
                                         !.closed = @ \o ReadPartDefers(rec.partsRead, TRUE, FALSE)],
                             AfterReadPartOk(rec.resp, rec.method))]
             /\ uploaded' = IF fs[q].data = c
                            THEN uploaded \cup {[filename |-> rec.part.filename,
                                                  name |-> UploadFileName(rec.part),
                                                  content |-> c]}
                            ELSE uploaded
             /\ UNCHANGED fs
    /\ UNCHANGED <<serveDir, outputDir>>

\* the response is sent and the connection serves the next request
Finish(r) ==
    /\ req[r].pc = "done"
    /\ req' = [req EXCEPT ![r] = IdleReq]
    /\ UNCHANGED <<serveDir, outputDir, fs, uploaded>>

\* requests handled one at a time
Next ==
    \/ MethodNotAllowed("a")
    \/ ServeRootGet("a")
    \/ DownloadStart("a", Queries)
    \/ DownloadCopy("a")
    \/ UploadStart("a", MultipartOutcomes)
    \/ UploadNextPart("a", Parts)
    \/ UploadCopy("a")
    \/ Finish("a")

Spec == Init /\ [][Next]_vars

\* two requests handled concurrently, one per connection: uploads aiming at
\* one file, and downloads of that file
NextConc ==
    \E r \in Slots :
        \/ UploadStart(r, {"ok"})
        \/ UploadNextPart(r, SameFileParts)
        \/ UploadCopy(r)
        \/ DownloadStart(r, SameFileQueries)
        \/ DownloadCopy(r)

InitConc == Init /\ serveDir = Dot

SpecConc == InitConc /\ [][NextConc]_vars
\* ------------------------------------------------------------------ claims
\* the request handled on connection "a" (the only one under Spec)
R == req["a"]
DoneWith(h) == R.pc = "done" /\ R.handler = h

\* no node of the file system other than those in keep differs from before
\* the request
OnlyChanged(keep) ==
    \A q \in (DOMAIN fs \cup DOMAIN R.fs0) \ keep :
        q \in DOMAIN fs /\ q \in DOMAIN R.fs0 /\ fs[q] = R.fs0[q]

\* C1: when the first part named "file" (file name f, content c) is reached
\* and create and copy succeed, the file join(OutputDirectory, base(f)) holds
\* exactly c, the response is 302 to "/", no later part is read and no other
\* file is created or modified.
C1_UploadStoresFirstFilePart ==
    (DoneWith("handleUploadPost") /\ R.fileAt > 0 /\ R.createOk /\ R.copyOk) =>
        LET f == R.part.filename
            c == R.part.content
            dest == Abs(Join(outputDir, Base(f)))
        IN /\ dest \in DOMAIN fs
           /\ fs[dest] = FileNode(c)
           /\ R.resp.status = 302
           /\ R.resp.location = "/"
           /\ R.partsRead = R.fileAt
           /\ \A i \in 1..(R.fileAt - 1) : R.names[i] # "file"
           /\ OnlyChanged({dest})

\* an upload of "d/ff" with two chunks, after a part of another name, has
\* been stored in the output directory /d/d
C1_Witness ==
    /\ DoneWith("handleUploadPost") /\ R.createOk /\ R.copyOk
    /\ R.resp.status = 302
    /\ R.part.filename = <<"d", "/", "f", "f">>
    /\ R.part.content = <<"x", "y">>
    /\ R.fileAt = 2
    /\ outputDir = <<"/", "d", "/", "d">>
    /\ <<"/", "d", "/", "d", "/", "f", "f">> \in DOMAIN fs

\* C2: for a readable directory join(ServeRoot, p), GET /?p=<p> answers 200
\* and lists the parent entry ("../", <DIR>, "/" with p = join(p, ".."))
\* followed by one entry per child in ReadDir order: name + "/", <DIR> and
\* "/" with p = join(p, name) for a directory, name, "" and "/download" with
\* p = join(p, name) for anything else.
C2_ListingEntries ==
    (/\ DoneWith("handleRootGet") /\ R.path = "/" /\ R.fault = "none"
     /\ Len(R.query) = 1 /\ IsDirAt(fs, Join(serveDir, R.query[1]))) =>
        LET p == R.query[1]
            kids == ReadDir(fs, Join(serveDir, p))
            link(u, v) == [method |-> "GET", path |-> u, query |-> <<v>>]
        IN /\ R.resp.status = 200
           /\ Len(R.resp.page) = 1
           /\ LET files == R.resp.page[1].Files
              IN /\ Len(files) = 1 + Len(kids)
                 /\ files[1].Name = <<".", ".", "/">>
                 /\ files[1].Type = "<DIR>"
                 /\ FollowLink(files[1].URL) = link("/", Join(p, DotDot))
                 /\ \A i \in 1..Len(kids) :
                        IF kids[i].isDir
                        THEN /\ files[i+1].Name = kids[i].name \o <<"/">>
                             /\ files[i+1].Type = "<DIR>"
                             /\ FollowLink(files[i+1].URL) = link("/", Join(p, kids[i].name))
                        ELSE /\ files[i+1].Name = kids[i].name
                             /\ files[i+1].Type = ""
                             /\ FollowLink(files[i+1].URL) =
                                    link("/download", Join(p, kids[i].name))

\* the directory d of the serve root has been listed: the parent entry, the
\* directory d/d and the file d/f
C2_Witness ==
    /\ DoneWith("handleRootGet") /\ R.path = "/" /\ R.fault = "none"
    /\ R.query = <<<<"d">>>>
    /\ R.resp.status = 200
    /\ Len(R.resp.page) = 1
    /\ Len(R.resp.page[1].Files) = 3
    /\ R.resp.page[1].Files[2].Name = <<"d", "/">>
    /\ R.resp.page[1].Files[3].URL.Path = "/download"

\* C3: the router invokes the GET handler exactly for GET with a GET handler
\* set, the POST handler exactly for POST with a POST handler set, and
\* otherwise answers 405 with an empty body and invokes nothing; so on "/",
\* "/download" (GET only) and "/upload" (POST only) an unsupported method
\* gets 405 and has no side effect.
C3_MethodRouter ==
    /\ \A g \in {Nil, "g"}, p \in {Nil, "p"}, m \in Methods :
          LET h == RouteByMethod([Get |-> g, Post |-> p], m)
          IN /\ (h = g /\ g # Nil) <=> (m = "GET" /\ g # Nil)
             /\ (h = p /\ p # Nil) <=> (m = "POST" /\ p # Nil)
             /\ (h = NotAllowed) <=> ~(m = "GET" /\ g # Nil) /\ ~(m = "POST" /\ p # Nil)
    /\ R.pc = "done" =>
          /\ R.handler = "handleRootGet" <=>
                (R.method = "GET" /\ R.path \notin {"/upload", "/download"})
          /\ R.handler = "handleDownloadGet" <=> (R.method = "GET" /\ R.path = "/download")
          /\ R.handler = "handleUploadPost" <=> (R.method = "POST" /\ R.path = "/upload")
          /\ R.handler \in {"handleRootGet", "handleDownloadGet", "handleUploadPost", NotAllowed}
          /\ R.handler = NotAllowed =>
                /\ R.resp.status = 405
                /\ R.resp.body = <<>>
                /\ R.opened = <<>>
                /\ Len(R.log) = 1
                /\ fs = R.fs0

\* a PUT to /upload has been answered 405
C3_Witness ==
    /\ R.pc = "done" /\ R.method = "PUT" /\ R.path = "/upload"
    /\ R.handler = NotAllowed /\ R.resp.status = 405

\* q is the directory root or lies below it
Within(root, q) ==
    \/ q = root
    \/ /\ Len(q) > Len(root)
       /\ SubSeq(q, 1, Len(root)) = root
       /\ (root = <<Slash>> \/ q[Len(root) + 1] = Slash)

\* C4: for every value of p, the directory the listing handler reads and the
\* file the download handler opens lie within the serve root.
C4_PathTraversalSafe ==
    /\ (DoneWith("handleRootGet") /\ R.path = "/" /\ R.resp.status = 200) =>
          Within(Abs(serveDir), ListingPath(serveDir, R.query))
    /\ (DoneWith("handleDownloadGet") /\ R.opened # <<>>) =>
          Within(Abs(serveDir), Abs(DownloadPath(serveDir, R.query)))

\* C5: every POST /upload ends with exactly one response, 400 when the body
\* is not multipart, the part stream is malformed, the stream ends without a
\* qualifying part, or create or copy fails, and 302 otherwise.
C5_UploadAlwaysResponds ==
    DoneWith("handleUploadPost") =>
        LET failed == \/ R.mp # "ok"
                      \/ R.term = "err"
                      \/ R.term = "eof"
                      \/ (R.fileAt > 0 /\ ~R.createOk)
                      \/ (R.createOk /\ ~R.copyOk)
        IN /\ R.resp.wrote
           /\ R.resp.status = IF failed THEN 400 ELSE 302

\* C6: a well-formed multipart body with no part named "file" (no parts, or
\* parts of other names only) has every part read and closed without error,
\* is answered 400, and leaves every file as it was.
C6_NoFilePart ==
    (/\ DoneWith("handleUploadPost") /\ R.mp = "ok" /\ R.term # "err"
     /\ \A i \in 1..Len(R.names) : R.names[i] # "file") =>
        /\ R.term = "eof"
        /\ ~R.panicked
        /\ R.resp.status = 400
        /\ R.closed = [i \in 1..R.partsRead |-> PartId(i)]
        /\ R.opened = R.closed
        /\ fs = R.fs0

\* two parts of another name have been skipped and the stream has ended
C6_Witness ==
    /\ DoneWith("handleUploadPost") /\ R.term = "eof"
    /\ R.names = <<"note", "note">>
    /\ R.resp.status = 400

\* C7: with Output Directory and Serve Root the same directory, after a
\* successful upload of (f, c) and no write to that file since,
\* GET /download?p=<base(f)> streams exactly c, as application/octet-stream,
\* with Content-Disposition attachment; filename="<base(f)>".
C7_RoundTrip ==
    (/\ DoneWith("handleDownloadGet") /\ R.fault = "none"
     /\ Abs(serveDir) = Abs(outputDir)) =>
        \A u \in uploaded :
            R.query = <<Base(u.filename)>> =>
                /\ R.resp.body = u.content
                /\ R.resp.ctype = "application/octet-stream"
                /\ R.resp.cdisp =
                      <<"attachment; filename=\"">> \o Base(u.filename) \o <<"\"">>

\* the upload "d/ff" with content xy, stored through output directory "."
\* and fetched as p=ff through serve root /d
C7_Witness ==
    /\ DoneWith("handleDownloadGet") /\ R.fault = "none"
    /\ serveDir = <<"/", "d">> /\ outputDir = Dot
    /\ [filename |-> <<"d", "/", "f", "f">>, name |-> <<"f", "f">>,
         content |-> <<"x", "y">>] \in uploaded
    /\ R.query = <<<<"f", "f">>>>
    /\ R.resp.body = <<"x", "y">>

\* C9: every error response produced by any route (400, 404, 405, 500) has
\* an empty body; error detail goes only to the log.
C9_ErrorBodiesEmpty ==
    (R.pc = "done" /\ R.resp.status >= 400) => R.resp.body = <<>>

Count(seq, e) == Cardinality({i \in 1..Len(seq) : seq[i] = e})

\* C10: when the upload or the download handler returns, on every exit
\* path, every part it obtained and every file it opened or created has
\* been closed exactly once.
C10_ResourcesReleased ==
    /\ \A i \in 1..Len(R.closed) :
          Count(R.closed, R.closed[i]) = 1 /\ Count(R.opened, R.closed[i]) = 1
    /\ R.pc = "done" =>
          \A i \in 1..Len(R.opened) :
              Count(R.opened, R.opened[i]) = 1 /\ Count(R.closed, R.opened[i]) = 1

\* an upload whose copy failed, after a skipped part, has returned with both
\* parts and the file closed
C10_Witness ==
    /\ DoneWith("handleUploadPost") /\ R.createOk /\ ~R.copyOk
    /\ R.opened = <<PartId(1), PartId(2), FileId>>
    /\ R.closed = <<PartId(1), FileId, PartId(2)>>

\* the two uploads of SpecConc
UpA == req["a"]
UpB == req["b"]
BothUploaded ==
    /\ UpA.pc = "done" /\ UpA.resp.status = 302
    /\ UpB.pc = "done" /\ UpB.resp.status = 302
    /\ Abs(UpA.target) = Abs(UpB.target)
Longest(a, b) == IF Len(a) >= Len(b) THEN Len(a) ELSE Len(b)

\* C8 as stated: after two concurrent uploads to one file name have both
\* answered 302, the file holds the complete content of one of the two.
C8_LastWriterWins ==
    BothUploaded =>
        fs[Abs(UpA.target)].data \in {UpA.part.content, UpB.part.content}

\* C8, amended: the writes race per offset. The file is no longer than the
\* longer upload, each of its bytes is the byte of one of the two uploads at
\* that offset or the zero byte of a hole, and it is the complete content of
\* an upload whenever the other upload neither created nor wrote the file
\* after that upload created it.
C8_LastWritePerOffset ==
    BothUploaded =>
        LET d == fs[Abs(UpA.target)].data
            a == UpA.part.content
            b == UpB.part.content
        IN /\ Len(d) <= Longest(a, b)
           /\ \A i \in 1..Len(d) :
                 \/ d[i] = ZeroByte
                 \/ (i <= Len(a) /\ d[i] = a[i])
                 \/ (i <= Len(b) /\ d[i] = b[i])
           /\ UpA.undisturbed => d = a
           /\ UpB.undisturbed => d = b

\* both uploads answered 302 and the file is neither upload's content
C8_Witness ==
    /\ BothUploaded
    /\ ~UpA.undisturbed /\ ~UpB.undisturbed
    /\ fs[Abs(UpA.target)].data \notin {UpA.part.content, UpB.part.content}
====
